---- MODULE Spec2Model ----
(***************************************************************************)
(* dotenvpull: the server (src/main.py, FastAPI handlers over a Beanie     *)
(* collection of EncryptedData documents) and the command line client      *)
(* (src/dotenvpull.py, one synchronous command at a time per client, its   *)
(* registry in dotenvpull_config.json).                                    *)
(*                                                                         *)
(* Every await of a handler is a point where other handlers run, so a      *)
(* handler is one action per database call.  A client command is one       *)
(* action up to its HTTP request and one action on the response; a         *)
(* network failure ends the command with the handler possibly still        *)
(* running.                                                                *)
(***************************************************************************)
EXTENDS Integers, FiniteSets, Sequences, TLC

\* ---------------------------------------------------------------- bounds
Clients == {"c1", "c2"}
ProjectNames == {"api"}
Plaintexts == {"SECRET=1", "SECRET=2"}
MaxKeys == 2        \* access keys the server draws in one run
MaxEncKeys == 2     \* encryption keys the clients draw in one run
MaxHandlers == 2    \* requests in flight or being handled at once
MaxEvents == 4      \* client commands started plus network failures in one run

Handlers == 1..MaxHandlers

\* ---------------------------------------------------------------- values
None == <<"none">>
AccessKey(i) == <<"ak", i>>          \* secrets.token_urlsafe(32), i-th draw
EncKey(i) == <<"ek", i>>             \* Fernet.generate_key(), i-th draw
AccessKeys == {AccessKey(i) : i \in 1..(MaxKeys + 1)}
EncKeys == {EncKey(i) : i \in 1..(MaxEncKeys + 1)}
ApiUrl == "http://localhost:8000"

\* Fernet token: authenticated under the key, opaque to everyone else.  The
\* token is tagged with the index of the key (its HMAC), not the key itself.
Encrypt(key, plaintext) == <<"ct", key[2], plaintext>>
IntegrityError == "InvalidToken"
\* Mutant of Decrypt: the token is not authenticated against the key.
DecryptUnauthenticated(key, token) ==
    IF token[1] = "ct" THEN token[3] ELSE IntegrityError

Decrypt(key, token) ==
    IF token[1] = "ct" /\ token[2] = key[2] THEN token[3] ELSE IntegrityError
Ciphertexts == {Encrypt(k, p) : k \in EncKeys, p \in Plaintexts}

VARIABLES
    records,     \* the EncryptedData collection: a set of documents
    nextKey,     \* number of access keys drawn so far
    handlers,    \* handler slot -> the request it serves and where it stands
    overlap,     \* pairs of store handlers for one project_id that ran at once
    issued,      \* <<project_id, access_key>> returned by a successful store
    lost,        \* documents inserted by a store whose answer reached no client
    config,      \* client -> contents of its dotenvpull_config.json
    nextEnc,     \* number of encryption keys drawn so far
    pending,     \* client -> the command waiting for its HTTP response
    result,      \* client -> outcome of its last finished command (the names
                 \* it printed, for list), and whether the one before it was a
                 \* successful delete of the same project
    expected,    \* client -> project -> plaintexts a pull may return, as the client knows
    events       \* client commands started and network failures so far

vars == <<records, nextKey, handlers, overlap, issued, lost, config, nextEnc,
          pending, result, expected, events>>

serverVars == <<records, nextKey, issued, lost>>
clientVars == <<config, nextEnc, pending, result, expected, events>>

\* ---------------------------------------------------------------- server
NoDoc == [id |-> 0, project_id |-> "", encrypted_content |-> None,
          access_key |-> None]

FreeHandler ==
    [pc |-> "free", op |-> "", client |-> "",
     project_id |-> "", encrypted_content |-> None, api_key |-> None,
     auth |-> "", data |-> NoDoc,
     status |-> 0, detail |-> "", access_key |-> None, content |-> None]

\* EncryptedData.find_one(EncryptedData.project_id == pid): the documents it may
\* return (any one of the matches; none when the set is empty).
FindByProject(recs, pid) == {r \in recs : r.project_id = pid}

\* EncryptedData.find_one(EncryptedData.access_key == key)
FindByAccessKey(recs, key) == {r \in recs : r.access_key = key}

\* Document.insert(): a new document under a new _id.
Insert(recs, doc) == recs \cup {doc}

\* Document.save(): replace the document with this _id, insert it when absent.
Save(recs, doc) == {r \in recs : r.id # doc.id} \cup {doc}

\* Document.delete(): remove the document with this _id.
DeleteDoc(recs, doc) == {r \in recs : r.id # doc.id}

\* A handler returns or raises: the response waits for the client, or is
\* dropped when the client has given up on the request.
Respond(h, status, detail, key, content) ==
    /\ handlers' = [handlers EXCEPT ![h] =
          IF handlers[h].client = ""
          THEN FreeHandler
          ELSE [@ EXCEPT !.pc = "done", !.status = status, !.detail = detail,
                         !.access_key = key, !.content = content]]
    /\ overlap' = IF handlers[h].client = ""
                  THEN {p \in overlap : h \notin p}
                  ELSE overlap

\* Mutant of verify_api_key: an unknown key is let through, with the project_id
\* of the request body as the caller's project.
verify_api_key_lenient(h) ==
    /\ handlers[h].pc = "verify"
    /\ IF FindByAccessKey(records, handlers[h].api_key) = {}
       THEN /\ handlers' = [handlers EXCEPT ![h].pc = "find",
                                            ![h].auth = handlers[h].project_id]
            /\ overlap' = overlap
       ELSE \E data \in FindByAccessKey(records, handlers[h].api_key) :
               /\ handlers' = [handlers EXCEPT ![h].pc = "find",
                                               ![h].auth = data.project_id]
               /\ overlap' = overlap
    /\ UNCHANGED <<serverVars, clientVars>>

\* verify_api_key, the dependency of retrieve, update and delete.
verify_api_key(h) ==
    /\ handlers[h].pc = "verify"
    /\ IF FindByAccessKey(records, handlers[h].api_key) = {}
       THEN Respond(h, 403, "Invalid API Key", None, None)
       ELSE \E data \in FindByAccessKey(records, handlers[h].api_key) :
               /\ handlers' = [handlers EXCEPT ![h].pc = "find",
                                               ![h].auth = data.project_id]
               /\ overlap' = overlap
    /\ UNCHANGED <<serverVars, clientVars>>

\* Mutant of store_data_find: the existence check is dropped.
store_data_find_unchecked(h) ==
    /\ handlers[h].pc = "find"
    /\ handlers[h].op = "store"
    /\ handlers' = [handlers EXCEPT ![h].pc = "act"]
    /\ overlap' = overlap
    /\ UNCHANGED <<serverVars, clientVars>>

\* store_data up to the await of insert().
store_data_find(h) ==
    /\ handlers[h].pc = "find"
    /\ handlers[h].op = "store"
    /\ IF FindByProject(records, handlers[h].project_id) # {}
       THEN Respond(h, 400, "Data already exists", None, None)
       ELSE /\ handlers' = [handlers EXCEPT ![h].pc = "act"]
            /\ overlap' = overlap
    /\ UNCHANGED <<serverVars, clientVars>>

\* store_data from insert() to its return.
store_data_insert(h) ==
    /\ handlers[h].pc = "act"
    /\ handlers[h].op = "store"
    /\ nextKey < MaxKeys
    /\ LET key == AccessKey(nextKey + 1)
           doc == [id |-> nextKey + 1,
                   project_id |-> handlers[h].project_id,
                   encrypted_content |-> handlers[h].encrypted_content,
                   access_key |-> key]
       IN /\ records' = Insert(records, doc)
          /\ nextKey' = nextKey + 1
          /\ issued' = issued \cup {<<doc.project_id, key>>}
          /\ lost' = IF handlers[h].client = "" THEN lost \cup {doc} ELSE lost
          /\ Respond(h, 200, "Data stored successfully", key, None)
    /\ UNCHANGED clientVars

\* retrieve_data after verify_api_key.
retrieve_data(h) ==
    /\ handlers[h].pc = "find"
    /\ handlers[h].op = "retrieve"
    /\ IF FindByProject(records, handlers[h].auth) = {}
       THEN Respond(h, 404, "Data not found", None, None)
       ELSE \E data \in FindByProject(records, handlers[h].auth) :
               /\ handlers' = [handlers EXCEPT ![h] =
                     IF handlers[h].client = ""
                     THEN FreeHandler
                     ELSE [@ EXCEPT !.pc = "done", !.status = 200,
                                    !.data = data,
                                    !.content = data.encrypted_content]]
               /\ overlap' = overlap
    /\ UNCHANGED <<serverVars, clientVars>>

\* update_data after verify_api_key, up to the await of save().
update_data_find(h) ==
    /\ handlers[h].pc = "find"
    /\ handlers[h].op = "update"
    /\ IF FindByProject(records, handlers[h].auth) = {}
       THEN Respond(h, 404, "Data not found", None, None)
       ELSE \E data \in FindByProject(records, handlers[h].auth) :
               /\ handlers' = [handlers EXCEPT ![h].pc = "act",
                     ![h].data = [data EXCEPT !.encrypted_content =
                                     handlers[h].encrypted_content]]
               /\ overlap' = overlap
    /\ UNCHANGED <<serverVars, clientVars>>

\* update_data from save() to its return.
update_data_save(h) ==
    /\ handlers[h].pc = "act"
    /\ handlers[h].op = "update"
    /\ records' = Save(records, handlers[h].data)
    /\ Respond(h, 200, "Data updated successfully", None, None)
    /\ UNCHANGED <<nextKey, issued, lost, clientVars>>

\* delete_data after verify_api_key, up to the await of delete().
delete_data_find(h) ==
    /\ handlers[h].pc = "find"
    /\ handlers[h].op = "delete"
    /\ IF FindByProject(records, handlers[h].auth) = {}
       THEN Respond(h, 404, "Data not found", None, None)
       ELSE \E data \in FindByProject(records, handlers[h].auth) :
               /\ handlers' = [handlers EXCEPT ![h].pc = "act", ![h].data = data]
               /\ overlap' = overlap
    /\ UNCHANGED <<serverVars, clientVars>>

\* delete_data from delete() to its return.
delete_data_delete(h) ==
    /\ handlers[h].pc = "act"
    /\ handlers[h].op = "delete"
    /\ records' = DeleteDoc(records, handlers[h].data)
    /\ Respond(h, 200, "Data deleted successfully", None, None)
    /\ UNCHANGED <<nextKey, issued, lost, clientVars>>

\* ---------------------------------------------------------------- client
Idle == [op |-> "", name |-> "", h |-> 0, encryption_key |-> None,
         access_key |-> None, plaintext |-> ""]

NoResult == [op |-> "", name |-> "", outcome |-> "", data |-> "",
             after_delete |-> FALSE, listed |-> {}]

\* Mutant of get_or_create_config: the key is generated on every call, also
\* for an entry that exists.
get_or_create_config_regenerates(cfg, project_name, encryption_key) ==
    [k \in DOMAIN cfg \cup {project_name} |->
        IF k = project_name
        THEN [encryption_key |-> encryption_key,
              access_key |-> IF k \in DOMAIN cfg THEN cfg[k].access_key ELSE None]
        ELSE cfg[k]]

\* get_or_create_config(project_name): the file after the call.
get_or_create_config(cfg, project_name, encryption_key) ==
    IF project_name \in DOMAIN cfg
    THEN cfg
    ELSE [k \in DOMAIN cfg \cup {project_name} |->
            IF k = project_name
            THEN [encryption_key |-> encryption_key, access_key |-> None]
            ELSE cfg[k]]

\* Mutant of update_config: the wrong field of the entry is written back.
update_config_slip(cfg, project_name, access_key) ==
    [cfg EXCEPT ![project_name].access_key = cfg[project_name].encryption_key]

\* update_config(project_name, access_key): the file after the call.
update_config(cfg, project_name, access_key) ==
    [cfg EXCEPT ![project_name].access_key = access_key]

\* del config[project_name] and the dump of the rest (delete, lines 209-212).
remove_config(cfg, project_name) ==
    [k \in DOMAIN cfg \ {project_name} |-> cfg[k]]

\* The message a command ends with, as the spec's error taxonomy names it.
Outcome(status) ==
    CASE status = 200 -> "OK"
      [] status = 400 -> "ConflictError"
      [] status = 403 -> "UnauthorizedError"
      [] status = 404 -> "NotFoundError"
      [] OTHER -> "NetworkError"

Finished(c, op, name, outcome, data) ==
    result' = [result EXCEPT ![c] =
        [op |-> op, name |-> name, outcome |-> outcome, data |-> data,
         after_delete |-> /\ result[c].op = "delete"
                          /\ result[c].outcome = "OK"
                          /\ result[c].name = name,
         listed |-> {}]]

\* What a pull may return, as the client knows it: the plaintext of its last
\* answered push or update, or anything once one of them went unanswered (the
\* server may or may not have applied it, now or later).
Unknown == Plaintexts \cup {"?"}
Answered(known, plaintext) == IF "?" \in known THEN Unknown ELSE {plaintext}

FreeSlots == {h \in Handlers : handlers[h].pc = "free"}
Slot == CHOOSE h \in FreeSlots : \A g \in FreeSlots : h <= g

\* A command may start: the client runs one command at a time.
CanStart(c, name) ==
    /\ pending[c].op = ""
    /\ events < MaxEvents
    /\ name \in DOMAIN config[c] \/ nextEnc < MaxEncKeys

\* The registry read at the top of every command, with the key it may draw.
Opened(c, name) == get_or_create_config(config[c], name, EncKey(nextEnc + 1))
Drawn(c, name) == IF name \in DOMAIN config[c] THEN nextEnc ELSE nextEnc + 1

\* requests.post/get/put/delete: the request leaves, the command blocks.
Send(c, op, name, project_id, content, api_key, plaintext) ==
    /\ FreeSlots # {}
    /\ handlers' = [handlers EXCEPT ![Slot] =
          [FreeHandler EXCEPT !.pc = IF op = "store" THEN "find" ELSE "verify",
                              !.op = op, !.client = c,
                              !.project_id = project_id,
                              !.encrypted_content = content,
                              !.api_key = api_key]]
    /\ overlap' = IF op = "store"
                  THEN overlap \cup
                       {{Slot, g} : g \in {x \in Handlers :
                            /\ handlers[x].op = "store"
                            /\ handlers[x].pc \in {"find", "act"}
                            /\ handlers[x].project_id = project_id}}
                  ELSE overlap
    /\ pending' = [pending EXCEPT ![c] =
          [op |-> op, name |-> name, h |-> Slot,
           encryption_key |-> Opened(c, name)[name].encryption_key,
           access_key |-> Opened(c, name)[name].access_key,
           plaintext |-> plaintext]]

\* The response is read and the handler's slot is free again.
Received(c) ==
    /\ handlers' = [handlers EXCEPT ![pending[c].h] = FreeHandler]
    /\ overlap' = {p \in overlap : pending[c].h \notin p}
    /\ pending' = [pending EXCEPT ![c] = Idle]

Response(c) == handlers[pending[c].h]

\* Mutant of push_headers: the header carries the encryption key.
push_headers_leak(project_config) == project_config.encryption_key

\* The X-API-Key header push sends: the entry's access key when it has one.
push_headers(project_config) == project_config.access_key

\* push, up to requests.post.
push(c, project_name, plaintext) ==
    /\ CanStart(c, project_name)
    /\ config' = [config EXCEPT ![c] = Opened(c, project_name)]
    /\ nextEnc' = Drawn(c, project_name)
    /\ events' = events + 1
    /\ LET project_config == Opened(c, project_name)[project_name]
       IN Send(c, "store", project_name, project_name,
               Encrypt(project_config.encryption_key, plaintext),
               push_headers(project_config), plaintext)
    /\ UNCHANGED <<serverVars, result, expected>>

\* Mutant of push_response: the access_key of the answer is persisted whatever
\* the status (None when the answer has none).
push_response_unchecked(c) ==
    /\ pending[c].op = "store"
    /\ Response(c).pc = "done"
    /\ config' = [config EXCEPT ![c] =
          update_config(@, pending[c].name, Response(c).access_key)]
    /\ expected' = IF Response(c).status = 200
                   THEN [expected EXCEPT ![c][pending[c].name] =
                            Answered(@, pending[c].plaintext)]
                   ELSE expected
    /\ Finished(c, "push", pending[c].name, Outcome(Response(c).status), "")
    /\ Received(c)
    /\ UNCHANGED <<serverVars, nextEnc, events>>

\* push, from the response on.
push_response(c) ==
    /\ pending[c].op = "store"
    /\ Response(c).pc = "done"
    /\ IF Response(c).status = 200
       THEN /\ config' = [config EXCEPT ![c] =
                  IF Response(c).access_key # None
                  THEN update_config(@, pending[c].name, Response(c).access_key)
                  ELSE @]
            /\ expected' = [expected EXCEPT ![c][pending[c].name] =
                               Answered(@, pending[c].plaintext)]
       ELSE UNCHANGED <<config, expected>>
    /\ Finished(c, "push", pending[c].name, Outcome(Response(c).status),
                "")
    /\ Received(c)
    /\ UNCHANGED <<serverVars, nextEnc, events>>

\* Mutant of pull: the access-key check is dropped and the request is sent
\* with whatever the entry holds.
pull_unchecked(c, project_name) ==
    /\ CanStart(c, project_name)
    /\ config' = [config EXCEPT ![c] = Opened(c, project_name)]
    /\ nextEnc' = Drawn(c, project_name)
    /\ events' = events + 1
    /\ Send(c, "retrieve", project_name, "", None,
            Opened(c, project_name)[project_name].access_key, "")
    /\ UNCHANGED <<serverVars, result, expected>>

\* pull, up to requests.get (or to its return when there is no access key).
pull(c, project_name) ==
    /\ CanStart(c, project_name)
    /\ config' = [config EXCEPT ![c] = Opened(c, project_name)]
    /\ nextEnc' = Drawn(c, project_name)
    /\ events' = events + 1
    /\ LET project_config == Opened(c, project_name)[project_name]
       IN IF project_config.access_key = None
          THEN /\ Finished(c, "pull", project_name, "NoAccessKeyError", "")
               /\ UNCHANGED <<handlers, overlap, pending>>
          ELSE /\ Send(c, "retrieve", project_name, "", None,
                       project_config.access_key, "")
               /\ UNCHANGED result
    /\ UNCHANGED <<serverVars, expected>>

\* pull, from the response on.
pull_response(c) ==
    /\ pending[c].op = "retrieve"
    /\ Response(c).pc = "done"
    /\ IF Response(c).status = 200
       THEN LET decrypted_content ==
                    Decrypt(pending[c].encryption_key, Response(c).content)
            IN IF decrypted_content = IntegrityError
               THEN Finished(c, "pull", pending[c].name, "IntegrityError", "")
               ELSE Finished(c, "pull", pending[c].name, "OK",
                             decrypted_content)
       ELSE Finished(c, "pull", pending[c].name, Outcome(Response(c).status),
                     "")
    /\ Received(c)
    /\ UNCHANGED <<serverVars, config, nextEnc, expected, events>>

\* update, up to requests.put.
update(c, project_name, plaintext) ==
    /\ CanStart(c, project_name)
    /\ config' = [config EXCEPT ![c] = Opened(c, project_name)]
    /\ nextEnc' = Drawn(c, project_name)
    /\ events' = events + 1
    /\ LET project_config == Opened(c, project_name)[project_name]
       IN IF project_config.access_key = None
          THEN /\ Finished(c, "update", project_name, "NoAccessKeyError", "")
               /\ UNCHANGED <<handlers, overlap, pending>>
          ELSE /\ Send(c, "update", project_name, project_name,
                       Encrypt(project_config.encryption_key, plaintext),
                       project_config.access_key, plaintext)
               /\ UNCHANGED result
    /\ UNCHANGED <<serverVars, expected>>

\* update, from the response on.
update_response(c) ==
    /\ pending[c].op = "update"
    /\ Response(c).pc = "done"
    /\ expected' = IF Response(c).status = 200
                   THEN [expected EXCEPT ![c][pending[c].name] =
                            Answered(@, pending[c].plaintext)]
                   ELSE expected
    /\ Finished(c, "update", pending[c].name, Outcome(Response(c).status),
                "")
    /\ Received(c)
    /\ UNCHANGED <<serverVars, config, nextEnc, events>>

\* delete, up to requests.delete.
delete(c, project_name) ==
    /\ CanStart(c, project_name)
    /\ config' = [config EXCEPT ![c] = Opened(c, project_name)]
    /\ nextEnc' = Drawn(c, project_name)
    /\ events' = events + 1
    /\ LET project_config == Opened(c, project_name)[project_name]
       IN IF project_config.access_key = None
          THEN /\ Finished(c, "delete", project_name, "NoAccessKeyError", "")
               /\ UNCHANGED <<handlers, overlap, pending>>
          ELSE /\ Send(c, "delete", project_name, "", None,
                       project_config.access_key, "")
               /\ UNCHANGED result
    /\ UNCHANGED <<serverVars, expected>>

\* Mutant of delete_response: the registry entry is kept after the server's
\* confirmation.
delete_response_keeps_entry(c) ==
    /\ pending[c].op = "delete"
    /\ Response(c).pc = "done"
    /\ expected' = IF Response(c).status = 200
                   THEN [expected EXCEPT ![c][pending[c].name] = {}]
                   ELSE expected
    /\ Finished(c, "delete", pending[c].name, Outcome(Response(c).status), "")
    /\ Received(c)
    /\ UNCHANGED <<serverVars, config, nextEnc, events>>

\* Mutant of delete_response: the registry entry is removed whatever the
\* server answered.
delete_response_unconditional(c) ==
    /\ pending[c].op = "delete"
    /\ Response(c).pc = "done"
    /\ config' = [config EXCEPT ![c] = remove_config(@, pending[c].name)]
    /\ expected' = [expected EXCEPT ![c][pending[c].name] = {}]
    /\ Finished(c, "delete", pending[c].name, Outcome(Response(c).status), "")
    /\ Received(c)
    /\ UNCHANGED <<serverVars, nextEnc, events>>

\* delete, from the response on.
delete_response(c) ==
    /\ pending[c].op = "delete"
    /\ Response(c).pc = "done"
    /\ IF Response(c).status = 200
       THEN /\ config' = [config EXCEPT ![c] = remove_config(@, pending[c].name)]
            /\ expected' = [expected EXCEPT ![c][pending[c].name] = {}]
       ELSE UNCHANGED <<config, expected>>
    /\ Finished(c, "delete", pending[c].name, Outcome(Response(c).status),
                "")
    /\ Received(c)
    /\ UNCHANGED <<serverVars, nextEnc, events>>

\* list_projects: the keys of the file, printed as the projects.
list_projects(c) ==
    /\ pending[c].op = ""
    /\ events < MaxEvents
    /\ events' = events + 1
    /\ result' = [result EXCEPT ![c] =
          [NoResult EXCEPT !.op = "list", !.outcome = "OK",
                           !.listed = DOMAIN config[c]]]
    /\ UNCHANGED <<serverVars, handlers, overlap, config, nextEnc, pending,
                   expected>>

\* A store has answered success and the answer is on its way.
Stored(h) == /\ handlers[h].op = "store"
             /\ handlers[h].pc = "done"
             /\ handlers[h].status = 200

\* The request or its response never completes: requests raises and the
\* command ends there.  A request that never arrived is never handled; one
\* that did is handled to its end with nobody waiting for the answer.
network_failure(c) ==
    /\ pending[c].op # ""
    /\ events < MaxEvents
    /\ \E arrived \in BOOLEAN :
          LET h == pending[c].h
              started == ~ \/ handlers[h].pc = "verify"
                           \/ handlers[h].op = "store" /\ handlers[h].pc = "find"
          IN /\ started => arrived
             /\ handlers' = [handlers EXCEPT ![h] =
                   IF arrived /\ handlers[h].pc # "done"
                   THEN [@ EXCEPT !.client = ""]
                   ELSE FreeHandler]
             /\ overlap' = IF arrived /\ handlers[h].pc # "done"
                           THEN overlap
                           ELSE {p \in overlap : h \notin p}
    /\ expected' = IF pending[c].op \in {"store", "update"}
                   THEN [expected EXCEPT ![c][pending[c].name] = Unknown]
                   ELSE expected
    /\ Finished(c, CASE pending[c].op = "store" -> "push"
                     [] pending[c].op = "retrieve" -> "pull"
                     [] OTHER -> pending[c].op,
                pending[c].name, "NetworkError", "")
    /\ pending' = [pending EXCEPT ![c] = Idle]
    /\ events' = events + 1
    /\ lost' = IF Stored(pending[c].h)
               THEN lost \cup {[id |-> Response(c).access_key[2],
                                project_id |-> Response(c).project_id,
                                encrypted_content |-> Response(c).encrypted_content,
                                access_key |-> Response(c).access_key]}
               ELSE lost
    /\ UNCHANGED <<records, nextKey, issued, config, nextEnc>>

\* ---------------------------------------------------------------- system
\* init() has run: the file holds the server url and no project yet.
Init ==
    /\ records = {}
    /\ nextKey = 0
    /\ handlers = [h \in Handlers |-> FreeHandler]
    /\ overlap = {}
    /\ issued = {}
    /\ lost = {}
    /\ config = [c \in Clients |-> [k \in {"api_url"} |-> ApiUrl]]
    /\ nextEnc = 0
    /\ pending = [c \in Clients |-> Idle]
    /\ result = [c \in Clients |-> NoResult]
    /\ expected = [c \in Clients |-> [n \in ProjectNames |-> {}]]
    /\ events = 0

Next ==
    \/ \E c \in Clients, n \in ProjectNames, p \in Plaintexts : push(c, n, p)
    \/ \E c \in Clients : push_response(c)
    \/ \E c \in Clients, n \in ProjectNames : pull(c, n)
    \/ \E c \in Clients : pull_response(c)
    \/ \E c \in Clients, n \in ProjectNames, p \in Plaintexts : update(c, n, p)
    \/ \E c \in Clients : update_response(c)
    \/ \E c \in Clients, n \in ProjectNames : delete(c, n)
    \/ \E c \in Clients : delete_response(c)
    \/ \E c \in Clients : list_projects(c)
    \/ \E c \in Clients : network_failure(c)
    \/ \E h \in Handlers : verify_api_key(h)
    \/ \E h \in Handlers : store_data_find(h)
    \/ \E h \in Handlers : store_data_insert(h)
    \/ \E h \in Handlers : retrieve_data(h)
    \/ \E h \in Handlers : update_data_find(h)
    \/ \E h \in Handlers : update_data_save(h)
    \/ \E h \in Handlers : delete_data_find(h)
    \/ \E h \in Handlers : delete_data_delete(h)

Spec == Init /\ [][Next]_vars

\* ---------------------------------------------------------------- claims
HandlerStep(h) == handlers'[h].pc # handlers[h].pc /\ pending' = pending

\* C1: two store calls for the same project_id that were in flight at the
\* same time never both return success (one of them gets the conflict error).
C1_ConcurrentStoreOneWinner ==
    \A h \in Handlers, g \in Handlers :
        (h # g /\ {h, g} \in overlap) => ~ (Stored(h) /\ Stored(g))

\* C2: the collection never holds two documents with the same project_id, so
\* a project never has two access keys the server accepts.
C2_OneRecordPerProject ==
    \A r1 \in records, r2 \in records :
        r1.project_id = r2.project_id => r1 = r2

\* C3: a store whose existence check finds a document with its project_id
\* answers 400 with no access key, draws no key and leaves every document as it
\* was (the stored encrypted_content stays the earlier payload).
C3_SingleCreation ==
    [][\A h \in Handlers :
         ( /\ handlers[h].op = "store"
           /\ handlers[h].pc = "find"
           /\ HandlerStep(h)
           /\ \E r \in records : r.project_id = handlers[h].project_id )
         => /\ records' = records
            /\ nextKey' = nextKey
            /\ issued' = issued
            /\ IF handlers[h].client = ""
               THEN handlers'[h].pc = "free"
               ELSE /\ handlers'[h].pc = "done"
                    /\ handlers'[h].status = 400
                    /\ handlers'[h].access_key = None]_vars

C3_Witness ==
    \E h \in Handlers :
        /\ handlers[h].op = "store"
        /\ handlers[h].pc = "done"
        /\ handlers[h].status = 400
        /\ \E r \in records :
              /\ r.project_id = handlers[h].project_id
              /\ r.encrypted_content # handlers[h].encrypted_content

\* C4: a retrieve, update or delete whose X-API-Key matches no document is
\* answered 403, carries no encrypted_content and changes no document.
C4_AccessKeyGating ==
    [][\A h \in Handlers :
         ( /\ handlers[h].pc = "verify"
           /\ HandlerStep(h)
           /\ ~ \E r \in records : r.access_key = handlers[h].api_key )
         => /\ records' = records
            /\ IF handlers[h].client = ""
               THEN handlers'[h].pc = "free"
               ELSE /\ handlers'[h].pc = "done"
                    /\ handlers'[h].status = 403
                    /\ handlers'[h].content = None]_vars

C4_Witness ==
    \E h \in Handlers :
        /\ handlers[h].op \in {"retrieve", "update", "delete"}
        /\ handlers[h].pc = "done"
        /\ handlers[h].status = 403
        /\ records # {}

\* C5: once a delete presented with access key K has answered success, K
\* matches no document (so a retrieve with K is refused).
C5_DeleteFinality ==
    \A h \in Handlers :
        ( /\ handlers[h].op = "delete"
          /\ handlers[h].pc = "done"
          /\ handlers[h].status = 200 )
        => ~ \E r \in records : r.access_key = handlers[h].api_key

\* C6 as claimed: the pull that follows a client's successful delete of the
\* same project fails with UnauthorizedError.
C6_PullAfterDeleteUnauthorized ==
    \A c \in Clients :
        (result[c].op = "pull" /\ result[c].after_delete)
        => result[c].outcome = "UnauthorizedError"

\* C6 as amended: the pull that follows a client's successful delete of the
\* same project fails with NoAccessKeyError (the delete removed the registry
\* entry, the pull recreated it without an access key), and the recreated
\* entry still has no access key.
C6_PullAfterDeleteNoAccessKey ==
    \A c \in Clients :
        (result[c].op = "pull" /\ result[c].after_delete)
        => /\ result[c].outcome = "NoAccessKeyError"
           /\ result[c].name \in DOMAIN config[c]
           /\ config[c][result[c].name].access_key = None

C6_Witness ==
    \E c \in Clients :
        /\ result[c].op = "pull"
        /\ result[c].after_delete
        /\ nextKey > 0

\* C7: a pull that succeeds returns the plaintext of the client's most recent
\* successful push or update of that project.  Stated for the clients whose
\* pushes and updates of the project were all answered since the entry was
\* created: after an unanswered one the client cannot tell what the server holds.
C7_RoundTrip ==
    \A c \in Clients :
        (result[c].op = "pull" /\ result[c].outcome = "OK")
        => result[c].data \in expected[c][result[c].name]

\* C8: no request, response or stored document holds an encryption key: the
\* fields are project names, Fernet tokens and access keys only.
C8_EncryptionKeyStaysLocal ==
    /\ \A h \in Handlers :
          /\ handlers[h].project_id \in ProjectNames \cup {""}
          /\ handlers[h].auth \in ProjectNames \cup {""}
          /\ handlers[h].encrypted_content \in Ciphertexts \cup {None}
          /\ handlers[h].api_key \in AccessKeys \cup {None}
          /\ handlers[h].access_key \in AccessKeys \cup {None}
          /\ handlers[h].content \in Ciphertexts \cup {None}
          /\ handlers[h].data.encrypted_content \in Ciphertexts \cup {None}
          /\ handlers[h].data.access_key \in AccessKeys \cup {None}
    /\ \A r \in records :
          /\ r.project_id \in ProjectNames
          /\ r.encrypted_content \in Ciphertexts
          /\ r.access_key \in AccessKeys

C8_Witness ==
    /\ records # {}
    /\ \E h \in Handlers :
          /\ handlers[h].op = "store"
          /\ handlers[h].pc = "find"
          /\ handlers[h].api_key # None
    /\ \E h \in Handlers :
          /\ handlers[h].op = "update"
          /\ handlers[h].pc = "act"

\* C9: every access key a registry entry holds was returned by a successful
\* store for that project name.
C9_RegistryKeyWasIssued ==
    \A c \in Clients : \A n \in ProjectNames \cap DOMAIN config[c] :
        config[c][n].access_key # None
        => <<n, config[c][n].access_key>> \in issued

C9_Witness ==
    \E c \in Clients : \E n \in ProjectNames \cap DOMAIN config[c] :
        /\ config[c][n].access_key # None
        /\ result[c].op = "push"
        /\ result[c].outcome = "OK"

\* C10: a push that ends in a network failure or an error answer leaves the
\* registry as it was when the push read it: the entry's access_key is the one
\* the push found (None for an entry it had just created).
C10_FailedPushKeepsAccessKey ==
    [][\A c \in Clients :
         ( /\ pending[c].op = "store"
           /\ pending'[c].op = ""
           /\ result'[c].outcome # "OK" )
         => /\ config'[c] = config[c]
            /\ config'[c][pending[c].name].access_key = pending[c].access_key]_vars

C10_Witness ==
    /\ \E c \in Clients :
          /\ result[c].op = "push"
          /\ result[c].outcome = "NetworkError"
          /\ config[c][result[c].name].access_key = None
          /\ \E r \in records : r.project_id = result[c].name
    /\ \E c \in Clients :
          /\ result[c].op = "push"
          /\ result[c].outcome = "ConflictError"
          /\ config[c][result[c].name].access_key # None

\* C11: a delete that ends in a network failure or in an error answer of the
\* server leaves the registry as it was: the entry is still there, with the
\* encryption_key and the access_key the delete read.
C11_FailedDeleteKeepsEntry ==
    [][\A c \in Clients :
         ( /\ pending[c].op = "delete"
           /\ pending'[c].op = ""
           /\ result'[c].outcome # "OK" )
         => /\ config'[c] = config[c]
            /\ pending[c].name \in DOMAIN config'[c]
            /\ config'[c][pending[c].name].encryption_key =
                  pending[c].encryption_key
            /\ config'[c][pending[c].name].access_key = pending[c].access_key]_vars

C11_Witness ==
    \E c \in Clients :
        /\ result[c].op = "delete"
        /\ result[c].outcome \in {"UnauthorizedError", "NotFoundError"}
        /\ result[c].name \in DOMAIN config[c]
        /\ config[c][result[c].name].access_key # None

\* The _ids of the collection.
Ids(recs) == {r.id : r \in recs}

\* C12: documents appear only by the insert of a store and disappear only by
\* the delete of a delete; the save of an update leaves the set of documents
\* as it is, also when the document it read has been deleted in between.
C12_RecordLifecycle ==
    [][\A h \in Handlers :
         (handlers[h].pc = "act" /\ HandlerStep(h))
         => CASE handlers[h].op = "store" ->
                    /\ Ids(records) \subseteq Ids(records')
                    /\ Cardinality(Ids(records')) = Cardinality(Ids(records)) + 1
              [] handlers[h].op = "delete" ->
                    Ids(records') \subseteq Ids(records)
              [] OTHER ->
                    Ids(records') = Ids(records)]_vars

\* C13: the document a retrieve returns, an update is about to save or a
\* delete is about to remove is the one whose access_key is the presented key.
C13_ActsOnKeyedRecord ==
    \A h \in Handlers :
        /\ (handlers[h].op \in {"update", "delete"} /\ handlers[h].pc = "act")
           => handlers[h].data.access_key = handlers[h].api_key
        /\ ( /\ handlers[h].op = "retrieve"
             /\ handlers[h].pc = "done"
             /\ handlers[h].status = 200 )
           => handlers[h].data.access_key = handlers[h].api_key

\* C14: a retrieve that does not succeed is answered 403, never 404.
C14_RetrieveFailsUnauthorized ==
    \A h \in Handlers :
        ( /\ handlers[h].op = "retrieve"
          /\ handlers[h].pc = "done"
          /\ handlers[h].status # 200 )
        => handlers[h].status = 403

\* C15: the save of an update replaces the encrypted_content of the document
\* bound to the presented access key by the payload of the request and changes
\* nothing else: no other field, no other document, no key drawn.
C15_UpdateChangesOnlyContent ==
    [][\A h \in Handlers :
         (handlers[h].op = "update" /\ handlers[h].pc = "act" /\ HandlerStep(h))
         => /\ nextKey' = nextKey
            /\ issued' = issued
            /\ \E r \in records :
                  /\ r.access_key = handlers[h].api_key
                  /\ records' = (records \ {r}) \cup
                        {[r EXCEPT !.encrypted_content =
                             handlers[h].encrypted_content]}]_vars

\* Client c starts a command in this step; the command and its project.
Starts(c) ==
    /\ pending[c].op = ""
    /\ events' = events + 1
    /\ pending'[c].op # "" \/ result'[c] # result[c] \/ config'[c] # config[c]
StartedOp(c) ==
    IF pending'[c].op = "" THEN result'[c].op
    ELSE CASE pending'[c].op = "store" -> "push"
           [] pending'[c].op = "retrieve" -> "pull"
           [] OTHER -> pending'[c].op
StartedName(c) ==
    IF pending'[c].op = "" THEN result'[c].name ELSE pending'[c].name

\* C16: a pull, update or delete of a project whose registry entry has no
\* access key (or no entry yet) ends with NoAccessKeyError at once: no request
\* is sent, no handler runs, no document changes.
C16_NoAccessKeyNoRequest ==
    [][\A c \in Clients :
         ( /\ Starts(c)
           /\ StartedOp(c) \in {"pull", "update", "delete"}
           /\ \/ StartedName(c) \notin DOMAIN config[c]
              \/ config[c][StartedName(c)].access_key = None )
         => /\ result'[c].outcome = "NoAccessKeyError"
            /\ pending'[c].op = ""
            /\ handlers' = handlers
            /\ records' = records]_vars

C16_Witness ==
    /\ records # {}
    /\ \E c \in Clients :
          /\ result[c].op \in {"update", "delete"}
          /\ result[c].outcome = "NoAccessKeyError"

\* C17: while a registry entry exists its encryption_key stays the one it was
\* created with, whatever command runs; and a step that changes the access_key
\* of an entry changes nothing else in the file.
C17_EncryptionKeyImmutable ==
    [][\A c \in Clients :
         \A n \in ProjectNames \cap DOMAIN config[c] \cap DOMAIN config'[c] :
            /\ config'[c][n].encryption_key = config[c][n].encryption_key
            /\ config'[c][n].access_key # config[c][n].access_key
               => /\ DOMAIN config'[c] = DOMAIN config[c]
                  /\ \A k \in DOMAIN config[c] \ {n} :
                        config'[c][k] = config[c][k]]_vars

C17_Witness ==
    \E c \in Clients : \E n \in ProjectNames \cap DOMAIN config[c] :
        /\ config[c][n].access_key # None
        /\ result[c].op \in {"pull", "update"}
        /\ result[c].name = n
        /\ result[c].outcome = "OK"

\* The names that have a project entry {encryption_key, access_key} in the file.
ProjectEntries(cfg) == DOMAIN cfg \ {"api_url"}

\* C18: list prints exactly the names that have a project entry, sends nothing
\* and leaves the file as it is.
C18_ListIsTheRegistry ==
    [][\A c \in Clients :
         ( /\ pending[c].op = ""
           /\ pending'[c].op = ""
           /\ events' = events + 1
           /\ result'[c] # result[c]
           /\ result'[c].op = "list" )
         => /\ result'[c].listed = ProjectEntries(config[c])
            /\ config' = config
            /\ handlers' = handlers
            /\ records' = records]_vars

\* C19: a pull whose answer holds a token that was not made with the key of
\* the pulling entry ends with IntegrityError and yields no plaintext.
C19_PullRejectsForeignToken ==
    [][\A c \in Clients :
         ( /\ pending[c].op = "retrieve"
           /\ pending'[c].op = ""
           /\ result'[c].outcome # "NetworkError"
           /\ Response(c).status = 200
           /\ \A p \in Plaintexts :
                 Response(c).content # Encrypt(pending[c].encryption_key, p) )
         => /\ result'[c].outcome = "IntegrityError"
            /\ result'[c].data = ""]_vars

C19_Witness ==
    \E c \in Clients :
        /\ result[c].op = "pull"
        /\ result[c].outcome = "IntegrityError"

\* C20: a document whose store answer reached no client stays out of reach: no
\* registry holds its access key, it stays in the collection as it was
\* inserted (never updated, never deleted), and no retrieve returns it.
C20_LostRecordIsUnreachable ==
    \A d \in lost :
        /\ \A c \in Clients : \A n \in ProjectNames \cap DOMAIN config[c] :
              config[c][n].access_key # d.access_key
        /\ d \in records
        /\ \A h \in Handlers :
              ( /\ handlers[h].op = "retrieve"
                /\ handlers[h].pc = "done"
                /\ handlers[h].status = 200 )
              => handlers[h].data.id # d.id

====
